---- MODULE Spec2Model ----
(***************************************************************************)
(* Model of create_experiment_template.py: the command-line driver that    *)
(* creates an AWS FIS experiment template and optionally starts an         *)
(* experiment from it.                                                     *)
(*                                                                         *)
(* Encoding of Python values:                                              *)
(*   - an optional value is a sequence: None is << >>, the value v is <<v>>*)
(*   - a dict is a function from its keys (a record when keys are names)   *)
(*   - a list is a sequence                                                *)
(*   - the text str(n) is the sequence of its characters                   *)
(*   - a printed line is its fixed text, in English, with the interpolated *)
(*     value beside it; the marks of success and failure that open a line  *)
(*     are written [OK] and [FAIL]                                         *)
(***************************************************************************)
EXTENDS Integers, Sequences, FiniteSets, TLC

VARIABLES
    args,         \* argparse namespace of the run (main, line 210)
    frame,        \* arguments of the start_experiment / get_experiment_status call in progress
    pc,           \* position of the single thread of control
    account,      \* Account returned by sts get_caller_identity (optional)
    calls,        \* network calls made so far, in order, each with its outcome
    template,     \* return value of create_experiment_template (optional)
    experiment,   \* return value of start_experiment / get_experiment_status (optional)
    exc,          \* exception propagating out of the current function (optional)
    stdout,       \* lines printed to the output stream
    stderr,       \* lines printed to the error stream
    exit_status   \* << >> while the process runs, <<code>> once it has exited

vars == <<args, frame, pc, account, calls, template, experiment, exc,
          stdout, stderr, exit_status>>

None == << >>
Some(v) == <<v>>

(***************************************************************************)
(* Bounds of the input space                                               *)
(***************************************************************************)
\* percentages range over -PctSlack .. 100 + PctSlack
PctSlack == 2
\* --lambda-arns carries 1 .. MaxArns values
MaxArns == 2

LambdaArns == {"arn:aws:lambda:us-east-1:123:function:f1",
               "arn:aws:lambda:us-east-1:123:function:f2"}
Percentages == (0 - PctSlack) .. (100 + PctSlack)
Durations == {"PT2M", "PT5M"}
LogBuckets == {None, Some(""), Some("fis-log-bucket")}
Accounts == {"123456789012"}
TemplateIds == {"EXT1aaaaaaaaaaaaa", "EXT2bbbbbbbbbbbbb"}
ExperimentIds == {"EXP1ccccccccccccc", "EXP2ddddddddddddd"}
ExperimentStatuses == {"pending", "initiating", "running"}
\* a failed call: the service answered with an error (botocore ClientError),
\* or the call failed otherwise (a BotoCoreError such as a connection error)
Failures == {"ClientError", "BotoCoreError"}

RECURSIVE SeqsUpTo(_, _)
SeqsUpTo(S, n) ==
    IF n = 0 THEN {<< >>}
    ELSE LET shorter == SeqsUpTo(S, n - 1)
         IN  shorter \cup {Append(s, x) : s \in {t \in shorter : Len(t) = n - 1}, x \in S}

(***************************************************************************)
(* Pure helpers                                                            *)
(***************************************************************************)
Digit(d) ==
    CASE d = 0 -> "0" [] d = 1 -> "1" [] d = 2 -> "2" [] d = 3 -> "3"
      [] d = 4 -> "4" [] d = 5 -> "5" [] d = 6 -> "6" [] d = 7 -> "7"
      [] d = 8 -> "8" [] d = 9 -> "9"

RECURSIVE NatStr(_)
NatStr(n) == IF n < 10 THEN <<Digit(n)>> ELSE Append(NatStr(n \div 10), Digit(n % 10))

\* faulty variant of str: the value clamped into 0..100 first
StrClamped(n) == IF n < 0 THEN NatStr(0) ELSE IF n > 100 THEN NatStr(100) ELSE NatStr(n)
\* str(percentage) for a Python int (line 60)
str(n) == IF n < 0 THEN <<"-">> \o NatStr(0 - n) ELSE NatStr(n)

\* faulty variant of TruthyStr: "is not None" in place of the truth value
TruthyStrAny(b) == b # None
\* truth value of an optional str (line 89): None and "" are false
TruthyStr(b) == b # None /\ b[1] # ""

\* faulty variant of TruthyDict: "is not None" in place of the truth value
TruthyDictAny(t) == t # None
\* truth value of an optional dict (line 126): None and {} are false
TruthyDict(t) == t # None /\ DOMAIN t[1] # {}

(***************************************************************************)
(* create_experiment_template: assembling the request                      *)
(***************************************************************************)
\* faulty variant of Targets: the ARN list in reverse order
TargetsReversed(target_lambda_arns) ==
    ("lambda-functions" :>
        [resourceType  |-> "aws:lambda:function",
         resourceArns  |-> [i \in 1 .. Len(target_lambda_arns) |->
                               target_lambda_arns[Len(target_lambda_arns) + 1 - i]],
         selectionMode |-> "ALL"])
\* targets (lines 46-52)
Targets(target_lambda_arns) ==
    ("lambda-functions" :>
        [resourceType  |-> "aws:lambda:function",
         resourceArns  |-> target_lambda_arns,
         selectionMode |-> "ALL"])

\* actions (lines 55-66)
Actions(action_id, duration, percentage) ==
    ("inject-fault" :>
        [actionId   |-> action_id,
         parameters |-> [duration |-> duration, percentage |-> str(percentage)],
         targets    |-> [Lambdas |-> "lambda-functions"]])

StopConditions == <<[source |-> "none"]>>

Tags == [Environment |-> "test", ManagedBy |-> "fis-automation"]

LogGroupArn(region, acct) ==
    "arn:aws:logs:" \o region \o ":" \o acct \o ":log-group:/aws/fis/*"

LogConfiguration(region, acct, log_bucket, log_prefix) ==
    [cloudWatchLogsConfiguration |-> [logGroupArn |-> LogGroupArn(region, acct)],
     s3Configuration             |-> [bucketName |-> log_bucket, prefix |-> log_prefix],
     logSchemaVersion            |-> 1]

\* template_params as passed to client.create_experiment_template (lines 76-99);
\* acct is the account resolved at line 92, present whenever log_bucket is true
TemplateParams(a, log_prefix, acct) ==
    LET base == [description    |-> a.description,
                 targets        |-> Targets(a.lambda_arns),
                 actions        |-> Actions(a.action_id, a.duration, a.percentage),
                 stopConditions |-> StopConditions,
                 roleArn        |-> a.role_arn,
                 tags           |-> Tags]
    IN  IF TruthyStr(a.log_bucket)
        THEN base @@ ("logConfiguration" :>
                        LogConfiguration(a.region, acct[1], a.log_bucket[1], log_prefix))
        ELSE base

(***************************************************************************)
(* start_experiment: assembling the request                                *)
(***************************************************************************)
DefaultStartTags == [StartedBy |-> "automation-script"]

StartParams(template_id, tags) ==
    [experimentTemplateId |-> template_id,
     tags                 |-> IF TruthyDict(tags) THEN tags[1] ELSE DefaultStartTags]

(***************************************************************************)
(* Bookkeeping of network calls and printed lines                          *)
(***************************************************************************)
Call(op, params) == [op |-> op, params |-> params, result |-> "pending", response |-> None]
Line(text, arg) == [text |-> text, arg |-> arg]

\* the call in flight completes: with its response, or with the failure raised
Completed(result, response) ==
    [calls EXCEPT ![Len(calls)].result = result, ![Len(calls)].response = response]

InFlight == {i \in 1 .. Len(calls) : calls[i].result = "pending"}
CallsOf(op) == {i \in 1 .. Len(calls) : calls[i].op = op}
Ops == [i \in 1 .. Len(calls) |-> calls[i].op]

(***************************************************************************)
(* The run of main(): state after parse_args and boto3.client('fis')       *)
(***************************************************************************)
ArgSpace ==
    [role_arn    : {"arn:aws:iam::123:role/fis-role"},
     lambda_arns : SeqsUpTo(LambdaArns, MaxArns) \ {<< >>},
     description : {"Lambda fault injection experiment"},
     action_id   : {"aws:fis:inject-api-unavailable-error"},
     duration    : Durations,
     percentage  : Percentages,
     log_bucket  : LogBuckets,
     region      : {"us-east-1"},
     no_start    : BOOLEAN]

NoFrame == [function |-> "none"]

Init ==
    /\ args \in ArgSpace
    /\ frame = NoFrame
    /\ pc = "main"
    /\ account = None
    /\ calls = << >>
    /\ template = None
    /\ experiment = None
    /\ exc = None
    /\ stdout = << >>
    /\ stderr = << >>
    /\ exit_status = << >>

\* faulty variants of ShouldStart: the flag ignored, the flag inverted
ShouldStartAlways(a) == TRUE
ShouldStartInverted(a) == a.no_start
\* line 239: whether main goes on to start the experiment
ShouldStart(a) == ~a.no_start

\* main, lines 215-232, entering create_experiment_template, lines 45-89
main_begin ==
    /\ pc = "main"
    /\ stdout' = stdout \o
          <<Line("=== AWS FIS create experiment template ===", << >>),
            Line("target Lambda ARNs: ", args.lambda_arns),
            Line("action: ", args.action_id),
            Line("duration: ", args.duration),
            Line("percentage: %", args.percentage),
            Line("", << >>)>>
    /\ pc' = IF TruthyStr(args.log_bucket) THEN "get_caller_identity"
                                           ELSE "create_experiment_template"
    /\ UNCHANGED <<args, frame, account, calls, template, experiment, exc,
                   stderr, exit_status>>

\* line 92: boto3.client('sts').get_caller_identity() is sent
get_caller_identity_call ==
    /\ pc = "get_caller_identity"
    /\ calls' = Append(calls, Call("sts:GetCallerIdentity", << >>))
    /\ pc' = "get_caller_identity_wait"
    /\ UNCHANGED <<args, frame, account, template, experiment, exc,
                   stdout, stderr, exit_status>>

\* line 92: the identity lookup answers; it is outside the try of line 101,
\* so a failure propagates without passing through the except clause
get_caller_identity_return ==
    /\ pc = "get_caller_identity_wait"
    /\ \/ \E acct \in Accounts :
            /\ calls' = Completed("ok", Some([Account |-> acct]))
            /\ account' = Some(acct)
            /\ pc' = "create_experiment_template"
            /\ UNCHANGED exc
       \/ \E f \in Failures :
            /\ calls' = Completed(f, None)
            /\ exc' = Some([type |-> f, op |-> "sts:GetCallerIdentity"])
            /\ pc' = "uncaught"
            /\ UNCHANGED account
    /\ UNCHANGED <<args, frame, template, experiment, stdout, stderr, exit_status>>

\* line 102: client.create_experiment_template(**template_params) is sent
create_experiment_template_call ==
    /\ pc = "create_experiment_template"
    /\ calls' = Append(calls, Call("fis:CreateExperimentTemplate",
                                   TemplateParams(args, "fis-logs", account)))
    /\ pc' = "create_experiment_template_wait"
    /\ UNCHANGED <<args, frame, account, template, experiment, exc,
                   stdout, stderr, exit_status>>

\* faulty variant of CreateFailed: the creation call is tried again
CreateFailedRetry(f) ==
    /\ calls' = Completed(f, None)
    /\ stderr' = IF f = "ClientError"
                 THEN Append(stderr, Line("[FAIL] template creation failed: ", f))
                 ELSE stderr
    /\ pc' = "create_experiment_template"
    /\ UNCHANGED <<exc, template, stdout>>
\* faulty variant of CreateFailed: the error is raised without being printed
CreateFailedSilent(f) ==
    /\ calls' = Completed(f, None)
    /\ exc' = Some([type |-> f, op |-> "fis:CreateExperimentTemplate"])
    /\ pc' = "uncaught"
    /\ UNCHANGED <<stderr, template, stdout>>
\* lines 106-108: except ClientError: print to stderr, raise; any other
\* exception passes the except clause untouched
CreateFailed(f) ==
    /\ calls' = Completed(f, None)
    /\ stderr' = IF f = "ClientError"
                 THEN Append(stderr, Line("[FAIL] template creation failed: ", f))
                 ELSE stderr
    /\ exc' = Some([type |-> f, op |-> "fis:CreateExperimentTemplate"])
    /\ pc' = "uncaught"
    /\ UNCHANGED <<template, stdout>>

\* lines 102-108: the creation call answers
create_experiment_template_return ==
    /\ pc = "create_experiment_template_wait"
    /\ \/ \E tid \in TemplateIds :
            /\ calls' = Completed("ok", Some([experimentTemplate |-> [id |-> tid]]))
            /\ template' = Some(calls'[Len(calls)].response[1].experimentTemplate)
            /\ stdout' = stdout \o <<Line("[OK] template created", << >>),
                                     Line("  Template ID: ", tid)>>
            /\ pc' = "main_after_create"
            /\ UNCHANGED <<exc, stderr>>
       \/ \E f \in Failures : CreateFailed(f)
    /\ UNCHANGED <<args, frame, account, experiment, exit_status>>

StartFrame(caller, template_id, tags) ==
    [function |-> "start_experiment", caller |-> caller,
     template_id |-> template_id, tags |-> tags]

\* faulty variant of main_after_create: the experiment is started from an
\* identifier that need not be the one just returned
MainAfterCreateWrongId ==
    /\ pc = "main_after_create"
    /\ IF ShouldStart(args)
       THEN /\ stdout' = stdout \o <<Line("template details:", template[1]),
                                     Line("=== start experiment ===", << >>)>>
            /\ \E tid \in TemplateIds :
                  frame' = StartFrame("main", tid, Some([CreatedBy |-> "fis-script"]))
            /\ pc' = "start_experiment"
       ELSE /\ stdout' = stdout \o
                  <<Line("template details:", template[1]),
                    Line("to start the experiment:", << >>),
                    Line("  python __file__ start --template-id ", template[1].id)>>
            /\ frame' = frame
            /\ pc' = "main_return"
    /\ UNCHANGED <<args, account, calls, template, experiment, exc, stderr, exit_status>>
\* lines 234-253: print the template, then start the experiment or print how to
main_after_create ==
    /\ pc = "main_after_create"
    /\ IF ShouldStart(args)
       THEN /\ stdout' = stdout \o <<Line("template details:", template[1]),
                                     Line("=== start experiment ===", << >>)>>
            /\ frame' = StartFrame("main", template[1].id,
                                   Some([CreatedBy |-> "fis-script"]))
            /\ pc' = "start_experiment"
       ELSE /\ stdout' = stdout \o
                  <<Line("template details:", template[1]),
                    Line("to start the experiment:", << >>),
                    Line("  python __file__ start --template-id ", template[1].id)>>
            /\ frame' = frame
            /\ pc' = "main_return"
    /\ UNCHANGED <<args, account, calls, template, experiment, exc, stderr, exit_status>>

\* lines 124-130: client.start_experiment(**params) is sent
start_experiment_call ==
    /\ pc = "start_experiment"
    /\ calls' = Append(calls, Call("fis:StartExperiment",
                                   StartParams(frame.template_id, frame.tags)))
    /\ pc' = "start_experiment_wait"
    /\ UNCHANGED <<args, frame, account, template, experiment, exc,
                   stdout, stderr, exit_status>>

\* where control goes when a function called by frame.caller raises
Raised == IF frame.caller = "main" THEN "uncaught" ELSE "raised"

\* lines 130-137: the start call answers
start_experiment_return ==
    /\ pc = "start_experiment_wait"
    /\ \/ \E eid \in ExperimentIds, st \in ExperimentStatuses :
            /\ calls' = Completed("ok",
                    Some([experiment |-> [id |-> eid, state |-> [status |-> st]]]))
            /\ experiment' = Some(calls'[Len(calls)].response[1].experiment)
            /\ stdout' = stdout \o <<Line("[OK] experiment started", << >>),
                                     Line("  Experiment ID: ", eid),
                                     Line("  State: ", st)>>
            /\ pc' = IF frame.caller = "main" THEN "main_after_start" ELSE "returned"
            /\ UNCHANGED <<exc, stderr>>
       \/ \E f \in Failures :
            /\ calls' = Completed(f, None)
            /\ stderr' = IF f = "ClientError"
                         THEN Append(stderr, Line("[FAIL] experiment start failed: ", f))
                         ELSE stderr
            /\ exc' = Some([type |-> f, op |-> "fis:StartExperiment"])
            /\ pc' = Raised
            /\ UNCHANGED <<experiment, stdout>>
    /\ UNCHANGED <<args, frame, account, template, exit_status>>

\* lines 247-250: print the experiment and how to watch it
main_after_start ==
    /\ pc = "main_after_start"
    /\ stdout' = stdout \o
          <<Line("experiment details:", experiment[1]),
            Line("to monitor the experiment:", << >>),
            Line("  aws fis get-experiment --id ", experiment[1].id)>>
    /\ pc' = "main_return"
    /\ UNCHANGED <<args, frame, account, calls, template, experiment, exc,
                   stderr, exit_status>>

\* lines 255 and 259: return 0; sys.exit(main())
main_return ==
    /\ pc = "main_return"
    /\ exit_status' = <<0>>
    /\ pc' = "exit"
    /\ UNCHANGED <<args, frame, account, calls, template, experiment, exc,
                   stdout, stderr>>

\* line 259: main() let an exception through; the interpreter writes the
\* traceback to the error stream and the process ends with status 1
uncaught ==
    /\ pc = "uncaught"
    /\ stderr' = Append(stderr, Line("Traceback (most recent call last): ", exc[1]))
    /\ exit_status' = <<1>>
    /\ pc' = "exit"
    /\ UNCHANGED <<args, frame, account, calls, template, experiment, exc, stdout>>

Next ==
    \/ main_begin
    \/ get_caller_identity_call
    \/ get_caller_identity_return
    \/ create_experiment_template_call
    \/ create_experiment_template_return
    \/ main_after_create
    \/ start_experiment_call
    \/ start_experiment_return
    \/ main_after_start
    \/ main_return
    \/ uncaught

Spec == Init /\ [][Next]_vars

(***************************************************************************)
(* start_experiment and get_experiment_status called as library functions  *)
(***************************************************************************)
TagInputs == {None, Some(<< >>), Some([CreatedBy |-> "fis-script"]),
              Some([StartedBy |-> "automation-script"]),
              Some([Team |-> "chaos", Stage |-> "dev"])}

StatusFrame(experiment_id) ==
    [function |-> "get_experiment_status", caller |-> "library",
     experiment_id |-> experiment_id]

InitLib ==
    /\ args = [no_start |-> FALSE]
    /\ frame \in {StartFrame("library", tid, t) : tid \in TemplateIds, t \in TagInputs}
                 \cup {StatusFrame(eid) : eid \in ExperimentIds}
    /\ pc = frame.function
    /\ account = None
    /\ calls = << >>
    /\ template = None
    /\ experiment = None
    /\ exc = None
    /\ stdout = << >>
    /\ stderr = << >>
    /\ exit_status = << >>

\* line 152: client.get_experiment(id=experiment_id) is sent
get_experiment_status_call ==
    /\ pc = "get_experiment_status"
    /\ calls' = Append(calls, Call("fis:GetExperiment", [id |-> frame.experiment_id]))
    /\ pc' = "get_experiment_status_wait"
    /\ UNCHANGED <<args, frame, account, template, experiment, exc,
                   stdout, stderr, exit_status>>

\* lines 152-156: the status call answers
get_experiment_status_return ==
    /\ pc = "get_experiment_status_wait"
    /\ \/ \E st \in ExperimentStatuses :
            /\ calls' = Completed("ok",
                    Some([experiment |-> [id |-> frame.experiment_id,
                                          state |-> [status |-> st]]]))
            /\ experiment' = Some(calls'[Len(calls)].response[1].experiment)
            /\ pc' = "returned"
            /\ UNCHANGED <<exc, stderr>>
       \/ \E f \in Failures :
            /\ calls' = Completed(f, None)
            /\ stderr' = IF f = "ClientError"
                         THEN Append(stderr, Line("[FAIL] status fetch failed: ", f))
                         ELSE stderr
            /\ exc' = Some([type |-> f, op |-> "fis:GetExperiment"])
            /\ pc' = Raised
            /\ UNCHANGED experiment
    /\ UNCHANGED <<args, frame, account, template, stdout, exit_status>>

NextLib ==
    \/ start_experiment_call
    \/ start_experiment_return
    \/ get_experiment_status_call
    \/ get_experiment_status_return

SpecLib == InitLib /\ [][NextLib]_vars

(***************************************************************************)
(* Properties                                                              *)
(***************************************************************************)
STS == "sts:GetCallerIdentity"
CREATE == "fis:CreateExperimentTemplate"
START == "fis:StartExperiment"
GET == "fis:GetExperiment"

Succeeded(op) == \E i \in CallsOf(op) : calls[i].result = "ok"
Failed(op) == \E i \in CallsOf(op) : calls[i].result \in Failures
Exited == pc = "exit"

\* some line of the stream s has the text t and carries the value v
Printed(s, t, v) == \E k \in 1 .. Len(s) : s[k].text = t /\ s[k].arg = v

FailMarks == {"[FAIL] template creation failed: ",
              "[FAIL] experiment start failed: ",
              "[FAIL] status fetch failed: "}

\* C1: in a run of main, start_experiment is called at most once, only after
\* the creation call returned successfully, and with the template identifier
\* that call returned; a run whose creation succeeds and which either does
\* not start or whose start succeeds cannot stop before it exits, and exits
\* with status 0.
C1_StartOnceAfterCreate ==
    /\ Cardinality(CallsOf(START)) <= 1
    /\ \A i \in CallsOf(START) :
          \E j \in 1 .. (i - 1) :
             /\ calls[j].op = CREATE
             /\ calls[j].result = "ok"
             /\ calls[i].params.experimentTemplateId =
                   calls[j].response[1].experimentTemplate.id
    /\ (Exited /\ Succeeded(CREATE) /\ (args.no_start \/ Succeeded(START)))
          => exit_status = <<0>>
    /\ ~Exited => ENABLED Next

\* C1 witness: a started run that exits with status 0
C1_Witness ==
    /\ Exited
    /\ Succeeded(CREATE)
    /\ Succeeded(START)
    /\ exit_status = <<0>>

\* C2: with --no-start, start_experiment is never called, and once the
\* template is created main prints the manual-start instruction carrying the
\* identifier the creation call returned.
C2_NoStartSuppresses ==
    args.no_start =>
       /\ CallsOf(START) = {}
       /\ \A j \in CallsOf(CREATE) :
             (calls[j].result = "ok" /\ pc \in {"main_return", "exit"})
                => Printed(stdout, "  python __file__ start --template-id ",
                           calls[j].response[1].experimentTemplate.id)

\* C2 witness: a --no-start run that printed the instruction and exited
C2_Witness ==
    /\ args.no_start
    /\ Exited
    /\ Succeeded(CREATE)
    /\ \E k \in 1 .. Len(stdout) :
          stdout[k].text = "  python __file__ start --template-id "

\* C3: when the creation call fails, start_experiment is never called, a
\* service error is reported on the error stream with the failure mark, and
\* the process ends with a non-zero status after writing the error to the
\* error stream, whatever --no-start is.
C3_CreateFailureStops ==
    \A j \in CallsOf(CREATE) :
       calls[j].result \in Failures =>
          /\ CallsOf(START) = {}
          /\ pc \in {"uncaught", "exit"}
          /\ calls[j].result = "ClientError"
                => Printed(stderr, "[FAIL] template creation failed: ", "ClientError")
          /\ Exited =>
                /\ exit_status # << >>
                /\ exit_status[1] # 0
                /\ Printed(stderr, "Traceback (most recent call last): ",
                           [type |-> calls[j].result, op |-> CREATE])

\* C3 witness: a run whose creation call got a service error, without --no-start, exited with status 1
C3_Witness ==
    /\ Exited
    /\ ~args.no_start
    /\ \E j \in CallsOf(CREATE) : calls[j].result = "ClientError"
    /\ exit_status = <<1>>

\* C4 (as claimed): every call that the service answers with an error is
\* reported on the error stream with the failure mark before the exception
\* propagates, no call is repeated, and nothing is called after a failure.
C4_EveryFailureMarked ==
    /\ \A i \in 1 .. Len(calls) :
          calls[i].result = "ClientError" =>
             \E k \in 1 .. Len(stderr) : stderr[k].text \in FailMarks
    /\ \A op \in {STS, CREATE, START, GET} : Cardinality(CallsOf(op)) <= 1
    /\ \A i \in 1 .. Len(calls) : calls[i].result \in Failures => i = Len(calls)

\* rank of an operation in the order identity lookup, creation, start
Rank(op) == CASE op = STS -> 1 [] op = CREATE -> 2 [] op = START -> 3 [] OTHER -> 4

\* C5: a run makes at most three network calls, in the order identity lookup,
\* template creation, experiment start, each at most once, and a call is sent
\* only when every earlier one has answered.
C5_AtMostThreeSequentialCalls ==
    /\ Len(calls) <= 3
    /\ \A i \in 1 .. Len(calls) : calls[i].op \in {STS, CREATE, START}
    /\ \A i, j \in 1 .. Len(calls) : i < j => Rank(calls[i].op) < Rank(calls[j].op)
    /\ Cardinality(InFlight) <= 1
    /\ InFlight \subseteq {Len(calls)}

\* C5 witness: identity lookup and creation answered, the start call in flight
C5_Witness ==
    /\ Ops = <<STS, CREATE, START>>
    /\ InFlight = {3}

NonEmptyBucket == args.log_bucket # None /\ args.log_bucket[1] # ""

\* the run is past the place where the identity lookup is sent
PastLookup == pc \notin {"main", "get_caller_identity"}

\* C6 (as claimed): the creation request carries logConfiguration if and only
\* if --log-bucket was given, and the identity lookup is made if and only if
\* --log-bucket was given.
C6_LogConfigIffSupplied ==
    \A i \in CallsOf(CREATE) :
       /\ ("logConfiguration" \in DOMAIN calls[i].params) <=> (args.log_bucket # None)
       /\ (CallsOf(STS) # {}) <=> (args.log_bucket # None)

\* C6 (amended): the creation request carries logConfiguration, naming the
\* given bucket, if and only if a non-empty --log-bucket was given, and the
\* identity lookup is made if and only if a non-empty --log-bucket was given.
C6_LogConfigIffNonEmpty ==
    /\ \A i \in CallsOf(CREATE) :
          /\ ("logConfiguration" \in DOMAIN calls[i].params) <=> NonEmptyBucket
          /\ NonEmptyBucket =>
                calls[i].params.logConfiguration.s3Configuration.bucketName
                   = args.log_bucket[1]
    /\ CallsOf(STS) # {} => NonEmptyBucket
    /\ PastLookup => ((CallsOf(STS) # {}) <=> NonEmptyBucket)

\* C6 witness: a run with a non-empty bucket: lookup answered, request carries logConfiguration
C6_Witness ==
    /\ NonEmptyBucket
    /\ Succeeded(STS)
    /\ \E i \in CallsOf(CREATE) : "logConfiguration" \in DOMAIN calls[i].params

\* C7 (as claimed): start_experiment sends the default tags if and only if the
\* caller passes no tags, and sends the caller's mapping whenever one is passed.
C7_DefaultTagsIffNone ==
    \A i \in CallsOf(START) :
       /\ (calls[i].params.tags = DefaultStartTags) <=> (frame.tags = None)
       /\ frame.tags # None => calls[i].params.tags = frame.tags[1]

\* C7 (amended): start_experiment sends the default tags when the caller
\* passes no tags or an empty mapping, and sends exactly the caller's mapping
\* whenever a non-empty mapping is passed.
C7_DefaultTagsIffNoneOrEmpty ==
    \A i \in CallsOf(START) :
       /\ (frame.tags = None \/ frame.tags = Some(<< >>))
             => calls[i].params.tags = DefaultStartTags
       /\ (frame.tags # None /\ frame.tags # Some(<< >>))
             => calls[i].params.tags = frame.tags[1]
       /\ calls[i].params.experimentTemplateId = frame.template_id

\* C7 witness: an empty mapping was passed and the default tags were sent
C7_Witness ==
    /\ frame.function = "start_experiment"
    /\ frame.tags = Some(<< >>)
    /\ \E i \in CallsOf(START) : calls[i].params.tags = DefaultStartTags

\* C8 (as claimed): the creation request's resourceArns is the given ARN list
\* and its selectionMode is "all".
C8_ArnsAndSelectionModeLower ==
    \A i \in CallsOf(CREATE) :
       /\ calls[i].params.targets["lambda-functions"].resourceArns = args.lambda_arns
       /\ calls[i].params.targets["lambda-functions"].selectionMode = "all"

\* C8 (amended): the creation request's resourceArns is the given ARN list,
\* element for element, and its selectionMode is "ALL".
C8_ArnsAndSelectionModeUpper ==
    \A i \in CallsOf(CREATE) :
       LET t == calls[i].params.targets["lambda-functions"]
       IN  /\ Len(t.resourceArns) = Len(args.lambda_arns)
           /\ \A k \in 1 .. Len(args.lambda_arns) : t.resourceArns[k] = args.lambda_arns[k]
           /\ t.selectionMode = "ALL"

\* C8 witness: a creation request built from two different ARNs
C8_Witness ==
    /\ Len(args.lambda_arns) = 2
    /\ args.lambda_arns[1] # args.lambda_arns[2]
    /\ CallsOf(CREATE) # {}

\* the integer a decimal numeral denotes
DigitValue(c) ==
    CASE c = "0" -> 0 [] c = "1" -> 1 [] c = "2" -> 2 [] c = "3" -> 3
      [] c = "4" -> 4 [] c = "5" -> 5 [] c = "6" -> 6 [] c = "7" -> 7
      [] c = "8" -> 8 [] c = "9" -> 9

IsDigits(s) ==
    /\ Len(s) >= 1
    /\ \A k \in 1 .. Len(s) : s[k] \in {"0", "1", "2", "3", "4", "5", "6", "7", "8", "9"}
    /\ Len(s) > 1 => s[1] # "0"

RECURSIVE DigitsValue(_)
DigitsValue(s) ==
    IF s = << >> THEN 0
    ELSE 10 * DigitsValue(SubSeq(s, 1, Len(s) - 1)) + DigitValue(s[Len(s)])

\* s is the decimal numeral of n: digits without leading zeros, "-" before
\* them exactly when n is negative
IsDecimalOf(s, n) ==
    IF n < 0
    THEN /\ Len(s) >= 2
         /\ s[1] = "-"
         /\ IsDigits(Tail(s))
         /\ DigitsValue(Tail(s)) = 0 - n
    ELSE /\ IsDigits(s)
         /\ DigitsValue(s) = n

\* C9: the creation request's percentage parameter is the decimal numeral of
\* --percentage, for values inside 0..100 and outside alike; no value stops
\* the run before the creation call: only a failed identity lookup does.
C9_PercentageAsString ==
    /\ \A i \in CallsOf(CREATE) :
          IsDecimalOf(calls[i].params.actions["inject-fault"].parameters.percentage,
                      args.percentage)
    /\ (CallsOf(CREATE) = {} /\ pc \in {"uncaught", "exit"}) => Failed(STS)
    /\ pc \notin {"main", "get_caller_identity", "get_caller_identity_wait",
                  "create_experiment_template"}
          => (CallsOf(CREATE) # {} \/ Failed(STS))

\* C9 witness: a percentage above 100 sent as its numeral
C9_Witness ==
    /\ args.percentage > 100
    /\ \E i \in CallsOf(CREATE) :
          calls[i].params.actions["inject-fault"].parameters.percentage
             = <<"1", "0", "1">>

\* the operations of the fault-injection service called so far, in order
FisOps == SelectSeq(Ops, LAMBDA op : op # STS)

CleanStartedRun == Exited /\ ~args.no_start /\ \A i \in 1 .. Len(calls) : calls[i].result = "ok"

\* C10 (as claimed): a run without failures and without --no-start calls
\* create template, start experiment and fetch status, in this order.
C10_CreateStartStatus == CleanStartedRun => FisOps = <<CREATE, START, GET>>

\* C10 (amended): a run without failures and without --no-start calls create
\* template and then start experiment, and never fetches the status.
C10_CreateStart ==
    /\ CleanStartedRun => FisOps = <<CREATE, START>>
    /\ CallsOf(GET) = {}

\* C10 witness: a run without failures that started the experiment and exited
C10_Witness ==
    /\ CleanStartedRun
    /\ Len(FisOps) = 2
====
